---- MODULE Spec2Model ----
(***************************************************************************)
(* Model of mastercode.py: the Flask handler get_response and the          *)
(* functions it calls (parse_query, fetch_product_details,                 *)
(* generate_response, get_openai_response).  One request is handled at a   *)
(* time; the two outbound HTTP calls are the points where the handler      *)
(* blocks, so each is split into an issue step and a return step.          *)
(***************************************************************************)
EXTENDS Integers, Sequences, FiniteSets, TLC

\* ------------------------------------------------------------------ bounds

\* Largest number of edges the catalog stub returns (the code asks for 10).
MaxProducts == 3

\* ------------------------------------------------------- Python integers
(***************************************************************************)
(* Python ints are unbounded and int() accepts literals far beyond the     *)
(* range of a double, which matters at the true division of line 86.  An   *)
(* int is modelled as hi * 10^400 + lo with small hi and lo, so that one    *)
(* value beyond the double range (10^400) can be written and computed      *)
(* with exactly.                                                           *)
(***************************************************************************)
PyInt(n) == [hi |-> 0, lo |-> n]

PyAdd(a, b) == [hi |-> a.hi + b.hi, lo |-> a.lo + b.lo]

PySub(a, b) == [hi |-> a.hi - b.hi, lo |-> a.lo - b.lo]

\* Exact whenever one factor is below 10^400 (always the case here: the
\* product that would need a 10^800 term is not representable).
PyMul(a, b) == [hi |-> a.hi * b.lo + a.lo * b.hi, lo |-> a.lo * b.lo]

PyLess(a, b) == a.hi < b.hi \/ (a.hi = b.hi /\ a.lo < b.lo)

PyMin(a, b) == IF PyLess(b, a) THEN b ELSE a

PyMax(a, b) == IF PyLess(a, b) THEN b ELSE a

\* ------------------------------------------------------------ int(string)
(***************************************************************************)
(* A query-string value is a sequence of characters.  The pseudo-character *)
(* Zeros400 stands for a run of 400 "0" digits.                            *)
(***************************************************************************)
Zeros400 == "0{400}"

DigitChars == {"0", "1", "2", "3", "4", "5", "6", "7", "8", "9"}

DigitVal == [c \in DigitChars |->
               CASE c = "0" -> 0 [] c = "1" -> 1 [] c = "2" -> 2 [] c = "3" -> 3
                 [] c = "4" -> 4 [] c = "5" -> 5 [] c = "6" -> 6 [] c = "7" -> 7
                 [] c = "8" -> 8 [] c = "9" -> 9]

IsDigits(s) == Len(s) > 0 /\ \A i \in 1..Len(s) : s[i] \in DigitChars \cup {Zeros400}

RECURSIVE DigitsValue(_)
DigitsValue(s) ==
    IF Len(s) = 0 THEN PyInt(0)
    ELSE LET front == DigitsValue(SubSeq(s, 1, Len(s) - 1))
             last  == s[Len(s)]
         IN  IF last = Zeros400
             THEN [hi |-> front.lo, lo |-> 0]
             ELSE PyAdd(PyMul(front, PyInt(10)), PyInt(DigitVal[last]))

\* int(s): an optional sign followed by digits, anything else is a ValueError
\* (surrounding blanks and digit-group underscores, which int() also accepts,
\* do not occur in the strings used here).
int(s) ==
    LET signed == Len(s) > 0 /\ s[1] \in {"+", "-"}
        digits == IF signed THEN Tail(s) ELSE s
    IN  IF ~IsDigits(digits)
        THEN [raise |-> "ValueError", value |-> PyInt(0)]
        ELSE [raise |-> "None",
              value |-> IF signed /\ s[1] = "-"
                        THEN PySub(PyInt(0), DigitsValue(digits))
                        ELSE DigitsValue(digits)]

\* request.args: an argument is absent or carries a string.
Absent == [present |-> FALSE, value |-> <<>>]

Arg(s) == [present |-> TRUE, value |-> s]

\* int(request.args.get(name, default))
IntArg(arg, default) ==
    IF arg.present THEN int(arg.value) ELSE [raise |-> "None", value |-> PyInt(default)]

\* ------------------------------------------------------------ configuration
WEBSITE_URL == "https://zincsforboats.com"

\* ------------------------------------------------------------- parse_query
(***************************************************************************)
(* A query is a sequence of words separated by single spaces; the empty    *)
(* sequence is the empty string.  The three regular expressions are        *)
(* matched word by word over a small vocabulary.                           *)
(***************************************************************************)
Words == {"zinc", "plate", "2005", "1805", "Hewescraft", "16", "Sportsman", "Anodes", "hello"}

\* re.IGNORECASE
Lower == [w \in Words |->
            CASE w = "Hewescraft" -> "hewescraft"
              [] w = "Sportsman"  -> "sportsman"
              [] w = "Anodes"     -> "anodes"
              [] OTHER            -> w]

\* \d+
NumberWords == {"2005", "1805", "16"}

\* \b(19|20)\d{2}\b
YearWords == {"2005"}

None == <<>>

FirstOf(S) == CHOOSE i \in S : \A j \in S : i <= j

\* year_pattern.search(query)
YearMatch(query) ==
    LET hits == {i \in 1..Len(query) : query[i] \in YearWords}
    IN  IF hits = {} THEN None ELSE <<query[FirstOf(hits)]>>

\* model_pattern.search(query): Hewescraft\s+\d+\s+\w+
ModelMatch(query) ==
    LET hits == {i \in 1..(Len(query) - 2) :
                    /\ Lower[query[i]] = "hewescraft"
                    /\ query[i + 1] \in NumberWords}
    IN  IF hits = {} THEN None ELSE SubSeq(query, FirstOf(hits), FirstOf(hits) + 2)

\* product_pattern.search(query): zinc plates?|boat stands?|anodes?|paints?
ProductMatchLen(query, i) ==
    IF /\ i + 1 <= Len(query)
       /\ \/ Lower[query[i]] = "zinc" /\ Lower[query[i + 1]] \in {"plate", "plates"}
          \/ Lower[query[i]] = "boat" /\ Lower[query[i + 1]] \in {"stand", "stands"}
    THEN 2
    ELSE IF Lower[query[i]] \in {"anode", "anodes", "paint", "paints"} THEN 1 ELSE 0

ProductMatch(query) ==
    LET hits == {i \in 1..Len(query) : ProductMatchLen(query, i) > 0}
    IN  IF hits = {} THEN None
        ELSE SubSeq(query, FirstOf(hits), FirstOf(hits) + ProductMatchLen(query, FirstOf(hits)) - 1)

parse_query(query) ==
    [year |-> YearMatch(query), model |-> ModelMatch(query), product |-> ProductMatch(query)]

\* --------------------------------------------------- fetch_product_details
(***************************************************************************)
(* What the catalog platform can answer to the one POST of line 68: no     *)
(* answer (transport error), a non-2xx status, or a 200 whose body is not  *)
(* JSON, is JSON without data/products/edges, or carries n edges.          *)
(***************************************************************************)
Node(i) == [id |-> i, title |-> <<"title", i>>, handle |-> <<"handle", i>>]

Edges(n) == [i \in 1..n |-> [node |-> Node(i)]]

UpstreamReplies ==
    {[transport |-> "error", status |-> 0, body |-> "none", edges |-> <<>>]}
    \cup {[transport |-> "ok", status |-> 500, body |-> "not_json", edges |-> <<>>]}
    \cup {[transport |-> "ok", status |-> 200, body |-> b, edges |-> <<>>] :
             b \in {"not_json", "no_data"}}
    \cup {[transport |-> "ok", status |-> 200, body |-> "edges", edges |-> Edges(n)] :
             n \in 0..MaxProducts}

\* The exception classes requests raises that derive from RequestException.
\* response.json() raises requests.exceptions.JSONDecodeError (a
\* RequestException) from requests 2.27 on and a plain ValueError before;
\* jsonErrorIsRequestException says which build is running.
IsRequestException(exc, jsonErrorIsRequestException) ==
    \/ exc \in {"ConnectionError", "HTTPError"}
    \/ exc = "JSONDecodeError" /\ jsonErrorIsRequestException

\* Lines 68-73: what the try block raises, "None" if it reaches the return.
FetchRaises(reply) ==
    CASE reply.transport = "error"                       -> "ConnectionError"
      [] reply.transport = "ok" /\ reply.status >= 400   -> "HTTPError"
      [] reply.transport = "ok" /\ reply.status < 400
            /\ reply.body = "not_json"                   -> "JSONDecodeError"
      [] reply.transport = "ok" /\ reply.status < 400
            /\ reply.body = "no_data"                    -> "KeyError"
      [] OTHER                                           -> "None"

\* Lines 41-76.  The search term only travels in the POST body; what comes
\* back is the platform's choice, so the outcome is a function of the reply.
fetch_product_details(reply, jsonErrorIsRequestException) ==
    LET exc == FetchRaises(reply)
    IN  IF exc = "None"
        THEN [raise |-> "None", value |-> [i \in 1..Len(reply.edges) |-> reply.edges[i].node]]
        ELSE IF IsRequestException(exc, jsonErrorIsRequestException)
             THEN [raise |-> "None", value |-> <<>>]
             ELSE [raise |-> exc, value |-> <<>>]

\* ------------------------------------------------------- generate_response
\* math.ceil(total_products / per_page) for total_products > 0, per_page # 0.
\* The true division yields a double: a divisor of magnitude 10^400 or more
\* makes the quotient underflow to (-)0.0, whose ceiling is 0.
CeilTrueDiv(total_products, per_page) ==
    IF per_page.hi # 0 THEN PyInt(0)
    ELSE IF per_page.lo > 0
         THEN PyInt((total_products + per_page.lo - 1) \div per_page.lo)
         ELSE PyInt(0 - (total_products \div (0 - per_page.lo)))

\* A slice bound as Python resolves it against a list of length n.
SliceIndex(i, n) ==
    LET shifted == IF PyLess(i, PyInt(0)) THEN PyAdd(i, PyInt(n)) ELSE i
    IN  PyMin(PyMax(shifted, PyInt(0)), PyInt(n)).lo

\* products[start:end]
PySlice(products, start, end) ==
    SubSeq(products, SliceIndex(start, Len(products)) + 1, SliceIndex(end, Len(products)))

\* Pages counted from 0 instead of 1.
PageStart_zero_based(page, per_page) == PyMul(page, per_page)

\* Line 88: start = (page - 1) * per_page
PageStart(page, per_page) == PyMul(PySub(page, PyInt(1)), per_page)

Link(product) == [name |-> product.title, url |-> <<WEBSITE_URL, "/products/", product.handle>>]

FallbackMessage ==
    [kind |-> "fallback",
     text |-> <<"We currently do not have the exact product you're looking for in our system, but we may have them in stock. ",
                "Please visit our [Shopify store](", WEBSITE_URL, ") and use the on-site search option. ",
                "Thank you for visiting today, and we appreciate the opportunity to earn your business.">>]

\* Lines 84-106, given the list fetch_product_details returned.
GenerateResponse(products, page, per_page) ==
    IF products # <<>>
    THEN IF per_page = PyInt(0)
         THEN [raise |-> "ZeroDivisionError"]
         ELSE LET total_products == Len(products)
                  total_pages == CeilTrueDiv(total_products, per_page)
                  start == PageStart(page, per_page)
                  end == PyAdd(start, per_page)
                  paginated_products == PySlice(products, start, end)
                  response_parts == [i \in 1..Len(paginated_products) |->
                                        Link(paginated_products[i])]
              IN  [raise |-> "None",
                   response_message |-> [kind |-> "matches", page |-> page,
                                         total_pages |-> total_pages,
                                         links |-> response_parts],
                   total_pages |-> total_pages]
    \* Lines 102-104 build the fallback message, but total_pages is assigned
    \* in the other branch only: the return of line 106 reads an unbound local.
    ELSE LET response_message == FallbackMessage
         IN  [raise |-> "UnboundLocalError"]

\* ----------------------------------------------------- get_openai_response
OpenAIErrorSentence == <<"An error occurred while trying to generate a response.">>

\* What openai.Completion.create can do: raise, answer without choices, or
\* answer with a text.
CompletionTexts == {<<" ", "Rinse", "anodes", "\n">>, <<"Check", "yearly">>}

OpenAIReplies ==
    {[kind |-> k, text |-> <<>>] : k \in {"APIConnectionError", "RateLimitError", "no_choices"}}
    \cup {[kind |-> "ok", text |-> t] : t \in CompletionTexts}

Whitespace == {" ", "\n", "\t"}

RECURSIVE LStrip(_)
LStrip(s) == IF Len(s) > 0 /\ Head(s) \in Whitespace THEN LStrip(Tail(s)) ELSE s

RECURSIVE RStrip(_)
RStrip(s) ==
    IF Len(s) > 0 /\ s[Len(s)] \in Whitespace THEN RStrip(SubSeq(s, 1, Len(s) - 1)) ELSE s

strip(s) == LStrip(RStrip(s))

\* The try block of lines 111-116: what it raises, "None" if it returns.
CompletionRaises(reply) ==
    CASE reply.kind = "ok"         -> "None"
      [] reply.kind = "no_choices" -> "IndexError"
      [] OTHER                     -> reply.kind

\* A handler that lets an IndexError of choices[0] through.
get_openai_response_narrow(reply) ==
    IF CompletionRaises(reply) = "None"
    THEN [raise |-> "None", value |-> strip(reply.text)]
    ELSE IF CompletionRaises(reply) = "IndexError"
         THEN [raise |-> "IndexError", value |-> <<>>]
         ELSE [raise |-> "None", value |-> OpenAIErrorSentence]

\* Lines 110-119: except Exception catches whatever the try block raises.
get_openai_response(reply) ==
    IF CompletionRaises(reply) = "None"
    THEN [raise |-> "None", value |-> strip(reply.text)]
    ELSE [raise |-> "None", value |-> OpenAIErrorSentence]

\* f"{response_message}\n\nAdditionally, here's some advice: {openai_response}"
AdviceInfix == "\n\nAdditionally, here's some advice: "

FinalResponse(response_message, openai_response) ==
    <<response_message, AdviceInfix, openai_response>>

\* ---------------------------------------------------------- HTTP responses
NoResponse == [status |-> 0, body |-> [pending |-> TRUE]]

QueryRequired == [status |-> 400, body |-> [error |-> "Query is required"]]

\* A handler that catches ValueError only: anything else reaches Flask, which
\* answers with its own HTML error page.
ExceptionResponse_narrow(exc) ==
    IF exc = "ValueError"
    THEN [status |-> 500, body |-> [error |-> "An unexpected error occurred."]]
    ELSE [status |-> 500, body |-> [html |-> "Internal Server Error"]]

\* Lines 145-147: except Exception catches every exception the try block
\* can raise.
ExceptionResponse(exc) ==
    [status |-> 500, body |-> [error |-> "An unexpected error occurred."]]

\* Line 144
OkResponse(final_response, total_pages, page) ==
    [status |-> 200,
     body |-> [message |-> final_response, total_pages |-> total_pages, current_page |-> page]]

\* ------------------------------------------------------------------- state
VARIABLES
    pc,              \* where the handler is: idle, handler, generate,
                     \* catalog_wait, advise, openai_wait, done
    request,         \* request.args of the request being handled
    page, per_page,  \* locals of get_response
    parsed_query,    \* local of generate_response
    catalog_reply,   \* what the catalog platform answered
    fetched,         \* outcome of fetch_product_details
    generated,       \* outcome of generate_response
    openai_reply,    \* what the completion API answered
    openai_response, \* local of get_response
    response,        \* what the handler returned
    caught,          \* the exception the handler's except clause caught
    calls,           \* outbound calls of this request, in order
    json_error_is_request_exception  \* property of the installed requests

vars == <<pc, request, page, per_page, parsed_query, catalog_reply, fetched, generated,
          openai_reply, openai_response, response, caught, calls,
          json_error_is_request_exception>>

\* ------------------------------------------------------------------ inputs
Queries ==
    { <<>>,
      <<"zinc", "plate", "2005", "Hewescraft", "16", "Sportsman">>,
      <<"hello">>,
      <<"Anodes", "1805">>,
      <<"zinc", "hello", "2005">>,
      <<"Hewescraft", "16">> }

QueryArgs == {Absent} \cup {Arg(q) : q \in Queries}

PageArgs == {Absent} \cup
            {Arg(s) : s \in {<<"1">>, <<"2">>, <<"3">>, <<"4">>, <<"0">>, <<"-", "1">>,
                             <<"a", "b", "c">>, <<>>}}

PerPageArgs == {Absent} \cup
               {Arg(s) : s \in {<<"1">>, <<"2">>, <<"0">>, <<"-", "2">>, <<"1", Zeros400>>,
                                <<"1", "0">>, <<"t", "e", "n">>}}

NoReply == [kind |-> "none"]

NoOutcome == [raise |-> "unset"]

\* Nothing survives from one request to the next.
Fresh ==
    /\ page = PyInt(0)
    /\ per_page = PyInt(0)
    /\ parsed_query = [year |-> None, model |-> None, product |-> None]
    /\ catalog_reply = NoReply
    /\ fetched = NoOutcome
    /\ generated = NoOutcome
    /\ openai_reply = NoReply
    /\ openai_response = <<>>
    /\ response = NoResponse
    /\ caught = "None"
    /\ calls = <<>>

Init ==
    /\ pc = "idle"
    /\ request = [query |-> Absent, page |-> Absent, per_page |-> Absent]
    /\ Fresh
    /\ json_error_is_request_exception \in BOOLEAN

\* ----------------------------------------------------------------- actions
\* Flask dispatches a GET /get_response to the handler.
ReceiveRequest ==
    /\ pc \in {"idle", "done"}
    /\ \E q \in QueryArgs, p \in PageArgs, pp \in PerPageArgs :
          request' = [query |-> q, page |-> p, per_page |-> pp]
    /\ pc' = "handler"
    /\ page' = PyInt(0)
    /\ per_page' = PyInt(0)
    /\ parsed_query' = [year |-> None, model |-> None, product |-> None]
    /\ catalog_reply' = NoReply
    /\ fetched' = NoOutcome
    /\ generated' = NoOutcome
    /\ openai_reply' = NoReply
    /\ openai_response' = <<>>
    /\ response' = NoResponse
    /\ caught' = "None"
    /\ calls' = <<>>
    /\ UNCHANGED json_error_is_request_exception

\* Lines 131-139: read the arguments, then check the query.
ParseArgs ==
    /\ pc = "handler"
    /\ LET p  == IntArg(request.page, 1)
           pp == IntArg(request.per_page, 10)
       IN  IF p.raise # "None" \/ pp.raise # "None"
           THEN /\ caught' = "ValueError"
                /\ response' = ExceptionResponse("ValueError")
                /\ pc' = "done"
                /\ UNCHANGED <<page, per_page>>
           ELSE /\ page' = p.value
                /\ per_page' = pp.value
                /\ caught' = "None"
                /\ IF ~request.query.present \/ request.query.value = <<>>
                   THEN response' = QueryRequired /\ pc' = "done"
                   ELSE response' = response /\ pc' = "generate"
    /\ UNCHANGED <<request, parsed_query, catalog_reply, fetched, generated, openai_reply,
                   openai_response, calls, json_error_is_request_exception>>

\* Lines 140, 80-82, 43-68: generate_response parses the query and
\* fetch_product_details sends the POST.
FetchIssue ==
    /\ pc = "generate"
    /\ parsed_query' = parse_query(request.query.value)
    /\ calls' = Append(calls, "catalog_call")
    /\ pc' = "catalog_wait"
    /\ UNCHANGED <<request, page, per_page, catalog_reply, fetched, generated, openai_reply,
                   openai_response, response, caught, json_error_is_request_exception>>

\* A get_response that goes on to line 141 whatever line 140 did.
AfterGenerateResponse_always(outcome) == "advise"

\* Line 140 seen from get_response: an exception raised in generate_response
\* skips line 141 and lands in the except clause.
AfterGenerateResponse(outcome) == IF outcome.raise = "None" THEN "advise" ELSE "done"

\* Lines 68-76 and 84-106: the POST returns, fetch_product_details returns or
\* raises, generate_response composes the message.
FetchReturn ==
    /\ pc = "catalog_wait"
    /\ \E reply \in UpstreamReplies :
          LET f == fetch_product_details(reply, json_error_is_request_exception)
              g == IF f.raise = "None"
                   THEN GenerateResponse(f.value, page, per_page)
                   ELSE [raise |-> f.raise]
          IN  /\ catalog_reply' = reply
              /\ fetched' = f
              /\ generated' = g
              /\ pc' = AfterGenerateResponse(g)
              /\ caught' = g.raise
              /\ response' = IF g.raise = "None" THEN response ELSE ExceptionResponse(g.raise)
    /\ calls' = Append(calls, "catalog_return")
    /\ UNCHANGED <<request, page, per_page, parsed_query, openai_reply, openai_response,
                   json_error_is_request_exception>>

\* Lines 141, 111: get_openai_response sends the completion request.
OpenAIIssue ==
    /\ pc = "advise"
    /\ calls' = Append(calls, "openai_call")
    /\ pc' = "openai_wait"
    /\ UNCHANGED <<request, page, per_page, parsed_query, catalog_reply, fetched, generated,
                   openai_reply, openai_response, response, caught,
                   json_error_is_request_exception>>

\* A handler that calls the completion API again when it failed.
OpenAIReturn_retry ==
    /\ pc = "openai_wait"
    /\ \E reply \in OpenAIReplies :
          LET o == get_openai_response(reply)
          IN  /\ openai_reply' = reply
              /\ openai_response' = o.value
              /\ caught' = o.raise
              /\ response' = IF reply.kind = "ok"
                             THEN OkResponse(FinalResponse(generated.response_message, o.value),
                                             generated.total_pages, page)
                             ELSE response
              /\ pc' = IF reply.kind = "ok" THEN "done" ELSE "advise"
    /\ calls' = Append(calls, "openai_return")
    /\ UNCHANGED <<request, page, per_page, parsed_query, catalog_reply, fetched, generated,
                   json_error_is_request_exception>>

\* Lines 111-119 and 142-144: the completion call returns or fails, the
\* handler appends the advice and answers 200.
OpenAIReturn ==
    /\ pc = "openai_wait"
    /\ \E reply \in OpenAIReplies :
          LET o == get_openai_response(reply)
          IN  /\ openai_reply' = reply
              /\ openai_response' = o.value
              /\ caught' = o.raise
              /\ response' = IF o.raise = "None"
                             THEN OkResponse(FinalResponse(generated.response_message, o.value),
                                             generated.total_pages, page)
                             ELSE ExceptionResponse(o.raise)
    /\ calls' = Append(calls, "openai_return")
    /\ pc' = "done"
    /\ UNCHANGED <<request, page, per_page, parsed_query, catalog_reply, fetched, generated,
                   json_error_is_request_exception>>

Next == ReceiveRequest \/ ParseArgs \/ FetchIssue \/ FetchReturn \/ OpenAIIssue \/ OpenAIReturn

Spec == Init /\ [][Next]_vars

\* ------------------------------------------------------------- properties
Count(log, event) == Cardinality({i \in 1..Len(log) : log[i] = event})

QueryGiven == request.query.present /\ request.query.value # <<>>

WellFormedPaging ==
    /\ IntArg(request.page, 1).raise = "None"
    /\ IntArg(request.per_page, 10).raise = "None"

RequestedPage == IntArg(request.page, 1).value

CatalogReturned == Count(calls, "catalog_return") > 0

OpenAIReturned == Count(calls, "openai_return") > 0

\* The catalog call failed: no answer, a non-2xx answer or an unusable body.
CatalogFailed == CatalogReturned /\ FetchRaises(catalog_reply) # "None"

\* fetch_product_details returned the empty list.
ZeroProducts == CatalogReturned /\ fetched.raise = "None" /\ fetched.value = <<>>

GenericError == [status |-> 500, body |-> [error |-> "An unexpected error occurred."]]

\* generate_response returned a (message, total_pages) pair.
MessageComposed == CatalogReturned /\ generated.raise = "None"

\* C1: a non-empty query with well-formed paging whose catalog lookup yields
\* zero products is answered with the fixed fallback message, never with an
\* error.
C1_ZeroProductsGiveFallback ==
    (pc = "done" /\ QueryGiven /\ WellFormedPaging /\ ZeroProducts) =>
        /\ response.status = 200
        /\ generated.raise = "None"
        /\ generated.response_message = FallbackMessage

\* C2: when the catalog call fails, the request still ends with 200 and the
\* fallback message, never with 500.
C2_CatalogFailureGives200 ==
    (pc = "done" /\ QueryGiven /\ WellFormedPaging /\ CatalogFailed) =>
        /\ response.status = 200
        /\ generated.raise = "None"
        /\ generated.response_message = FallbackMessage

\* C3: a request without query (or with an empty one) ends with 400 and
\* "Query is required", whatever page and per_page are.
C3_MissingQueryGives400 ==
    (pc = "done" /\ ~QueryGiven) => response = QueryRequired

\* C4: fetch_product_details never raises: on a transport error, a non-2xx
\* answer or a body that is malformed or lacks data/products/edges it
\* returns the empty list.
C4_FetchNeverRaises ==
    CatalogFailed => (fetched.raise = "None" /\ fetched.value = <<>>)

\* C5: when generate_response produced a message and the completion call
\* fails, get_openai_response returns the fixed sentence and the request ends
\* with 200 whose message is the composed message, the advice infix and that
\* sentence.
C5_AdviceFailureDoesNotBlock ==
    (OpenAIReturned /\ openai_reply.kind # "ok") =>
        /\ openai_response = OpenAIErrorSentence
        /\ pc = "done"
        /\ response.status = 200
        /\ response.body.message =
              <<generated.response_message, AdviceInfix, OpenAIErrorSentence>>

C5_Witness ==
    /\ pc = "done"
    /\ OpenAIReturned
    /\ openai_reply.kind = "no_choices"
    /\ response.status = 200
    /\ generated.response_message.kind = "matches"

\* min(per_page, total_products - (page - 1) * per_page), clamped at 0
ExpectedLinks(total_products, p, pp) ==
    PyMax(PyInt(0),
          PyMin(pp, PySub(PyInt(total_products), PyMul(PySub(p, PyInt(1)), pp))))

LinksAsExpected ==
    PyInt(Len(generated.response_message.links))
        = ExpectedLinks(Len(fetched.value), page, per_page)

\* C6 as stated: for a non-empty product list, a positive per_page and every
\* integer page the endpoint accepts, the number of links rendered is
\* min(per_page, total_products - (page - 1) * per_page) clamped at 0.
C6_LinksOnEveryAcceptedPage ==
    (MessageComposed /\ PyLess(PyInt(0), per_page)) => LinksAsExpected

\* C6 amended: the same for every page of at least 1; a page past the last
\* one renders no link and is not an error.
C6_LinksOnPositivePages ==
    (MessageComposed /\ PyLess(PyInt(0), per_page) /\ PyLess(PyInt(0), page)) =>
        /\ LinksAsExpected
        /\ pc = "done" => response.status = 200

C6_Witness ==
    /\ pc = "done"
    /\ MessageComposed
    /\ response.status = 200
    /\ PyLess(PyInt(0), per_page)
    /\ PyLess(PyInt(Len(fetched.value)), PyMul(PySub(page, PyInt(1)), per_page))
    /\ generated.response_message.links = <<>>

\* ceil(a / b) for a > 0 and b > 0: the least k with k * b >= a
Ceil(a, b) ==
    PyInt(CHOOSE k \in 1..a :
             /\ ~PyLess(PyMul(PyInt(k), b), PyInt(a))
             /\ \A j \in 1..(k - 1) : PyLess(PyMul(PyInt(j), b), PyInt(a)))

\* C7: every 200 response carries total_pages = ceil(total_products /
\* per_page) for the positive per_page requested and current_page = the
\* requested page.
C7_TotalPagesIsCeil ==
    (pc = "done" /\ response.status = 200 /\ PyLess(PyInt(0), per_page)) =>
        /\ response.body.total_pages = Ceil(Len(fetched.value), per_page)
        /\ response.body.current_page = RequestedPage

\* C8: a request issues at most one catalog call and at most one completion
\* call, and the completion call starts only after the catalog call returned.
C8_AtMostOneCallEachInSequence ==
    /\ Count(calls, "catalog_call") <= 1
    /\ Count(calls, "openai_call") <= 1
    /\ \A i \in 1..Len(calls) :
          calls[i] = "openai_call" =>
             \E j \in 1..(i - 1) : calls[j] = "catalog_return"

C8_Witness ==
    calls = <<"catalog_call", "catalog_return", "openai_call", "openai_return">>

\* C9: every request ends with 200 {message, total_pages, current_page}, 400
\* {"error": "Query is required"} or 500 {"error": "An unexpected error
\* occurred."}; every exception raised in the handler, a non-integer page or
\* per_page included, becomes the 500 outcome.
C9_ThreeOutcomes ==
    /\ pc = "done" =>
          \/ /\ response.status = 200
             /\ DOMAIN response.body = {"message", "total_pages", "current_page"}
             /\ caught = "None"
          \/ response = QueryRequired /\ caught = "None"
          \/ response = GenericError /\ caught # "None"
    /\ caught # "None" => (pc = "done" /\ response = GenericError)
    /\ (pc = "done" /\ ~WellFormedPaging) => response = GenericError

C9_Witness ==
    /\ pc = "done"
    /\ caught = "KeyError"
    /\ response = GenericError

\* C10: a request that ends with 400, or with the 500 of a non-integer page
\* or per_page, issued no outbound call; the completion call is issued only
\* if generate_response returned without raising.
C10_NoCallBeforeValidation ==
    /\ (pc = "done" /\ (response.status = 400 \/ ~WellFormedPaging)) => calls = <<>>
    /\ Count(calls, "openai_call") > 0 => generated.raise = "None"

C10_Witness ==
    /\ pc = "done"
    /\ ~WellFormedPaging
    /\ QueryGiven
    /\ response.status = 500
    /\ calls = <<>>

====
